---------------------------- MODULE Spec2Model ----------------------------
(***************************************************************************)
(* hpc-research: the node worker (src/src/node), the coordinator           *)
(* (src/src/master) and the worker's boot sequence.                        *)
(*                                                                         *)
(* Node worker (Spec, SpecValueErrorOnly): the Flask handlers of           *)
(* server.py, the single-slot admission of Worker._submit_task, the job    *)
(* thread running Scheduler.run_competitive_hpl_benchmark or               *)
(* run_cooperative_hpl_benchmark, and the child processes the job thread   *)
(* forks (multiprocessing.Process) to run HPLInstance.run. Every "with     *)
(* status_lock" block is one atomic step; the steps of the job thread      *)
(* between two lock blocks interleave freely with the HTTP handler threads *)
(* (app.run(threaded=True)) and with the child processes.                  *)
(*                                                                         *)
(* Coordinator (MasterSpec, MasterFairSpec): the /register handler, the    *)
(* registry MenuHandler.nodes, the dispatch sessions of logic.py and of    *)
(* MenuHandler.run_cooperative_benchmarks, and the monitor loop            *)
(* wait_benchmark_completion, against a fleet of workers reduced to what   *)
(* the coordinator can see of them over HTTP.                              *)
(*                                                                         *)
(* Boot (BootSpec): main() of node/server.py with the retry loops of       *)
(* RegistrationHandler.register_node and SSHHandler.register_ssh_keys.     *)
(*                                                                         *)
(* Registry (RegistrySpec): the /register handler and MenuHandler.nodes    *)
(* alone, with the bodies and remote addresses a caller can send.          *)
(*                                                                         *)
(* ~/.ssh (KeysSpec): authorized_keys and id_rsa.pub as lists of lines,    *)
(* written by SSHHandler._save_public_key and by SSH.add_public_key.       *)
(*                                                                         *)
(* Queue worker (QueueSpec): src/src/worker.py, a bounded queue drained    *)
(* by one thread, and the /task_status handler of src/src/server.py.       *)
(*                                                                         *)
(* status_lock (LockSpec, LockFairSpec): the threading.Lock of the node    *)
(* Scheduler, one step per acquire, release and blocking call of the job   *)
(* thread and of the handler threads.                                      *)
(*                                                                         *)
(* Earlier coordinator (RetrySpec): NodeAPI.submit_benchmark of            *)
(* src/master/node_api.py, its retry loop called node after node by        *)
(* MenuHandler._launch_node_benchmarks.                                    *)
(***************************************************************************)
EXTENDS Integers, Sequences, FiniteSets, TLC

\* ------------------------------------------------------------------ bounds
\* Number of task ids uuid4 hands out in a run.
MaxTasks == 2
\* Largest instances_num a competitive payload carries.
MaxInstances == 1

\* ------------------------------------------------------------ vocabulary
\* current_task_id: Optional[str] = None
NoTask == 0

TaskIds == 1..MaxTasks

Terminal == {"Completed", "Configuration Error", "Execution Error"}

\* task_status.get(task_id, None): "None" stands for a missing key.
Statuses == {"None", "Running"} \cup Terminal

\* A request body as the submit handlers read it: json "empty" is a falsy body
\* ({} or no JSON at all), "missing" lacks one of the keys the handler
\* indexes, "full" carries them all. grid_positive says whether ps, qs,
\* n_value and nb are all positive.
Body(json, grid_positive, n) ==
    [json |-> json, grid_positive |-> grid_positive, instances_num |-> n]

\* Bodies of /submit_competitive_benchmark.
CompetitivePayloads ==
    {Body("empty", FALSE, 0), Body("missing", TRUE, 0)}
    \cup {Body("full", g, n) : g \in BOOLEAN, n \in 0..MaxInstances}

\* Bodies of /submit_cooperative_benchmark: node_slots is handed through to
\* the hostfile generator; the job always starts one MPI process.
CooperativePayloads ==
    {Body("empty", FALSE, 0), Body("missing", TRUE, 0)}
    \cup {Body("full", g, 1) : g \in BOOLEAN}

\* Outcomes of HPLConfig.generate_hpl_config / generate_hosts_file as the
\* scheduler distinguishes them: a path, a ValueError, any other exception.
GeneratorOutcomes == {"ok", "ValueError", "OtherError"}

\* Files of a task's result directory.
CollectlLog == <<"collectl.log", 0>>
ResultFile(i) == <<"hpl.result", i>>

\* ------------------------------------------------- coordinator vocabulary
\* Longest registry (MenuHandler.nodes) the model lets /register build.
MaxNodes == 2

\* request.remote_addr of the machines that run workers.
IPs == {"10.0.0.11", "10.0.0.12"}

\* node["data"].get("metrics", {}).get("node_port", 5000)
DefaultPort == 5000
NoPort == 0

\* A /register body as the coordinator reads it: the advertised port (NoPort
\* when the metrics carry no node_port, as with the node's own
\* collect_system_metrics) and one of the metrics.
Metrics(port, cpu) == [node_port |-> port, cpu_count |-> cpu]

RegisterBodies == {Metrics(NoPort, 8), Metrics(NoPort, 16), Metrics(5001, 8)}

\* Bodies that also declare an address of their own ("node_ip"), here the
\* address of another machine than the one some of them are sent from.
DeclaringBodies ==
    {[node_port |-> NoPort, cpu_count |-> 8, node_ip |-> ip] : ip \in IPs}

NodePort(data) ==
    IF data.node_port = NoPort THEN DefaultPort ELSE data.node_port

\* The workers of the fleet, by the address NodeAPI builds its base_url from.
Fleet == {<<"10.0.0.11", 5000>>, <<"10.0.0.11", 5001>>, <<"10.0.0.12", 5000>>}

\* What a worker is to the coordinator: not serving ("off"), serving with no
\* job it was asked about ("idle"), or serving with the status of its latest
\* job. (_run_instance's "Execution Error" is written in a forked child and
\* never reaches the serving process.)
WorkerStates == {"off", "idle", "Running", "Completed", "Configuration Error"}

\* NodeEntry taking the address the body declares when it declares one.
NodeEntryDeclared(ip, data) ==
    [ip |-> IF "node_ip" \in DOMAIN data THEN data.node_ip ELSE ip,
     data |-> data]

\* NodeList entries: node_entry of MenuHandler.register_node (registered_at
\* is never read).
NodeEntry(ip, data) == [ip |-> ip, data |-> data]

\* The envelope /get_results returns for a completed job.
Envelope == {CollectlLog, ResultFile(1)}

\* -------------------------------------------------------- boot vocabulary
\* register_node(self, max_retries: int = 10) of node/network
NodeRegisterRetries == 10
\* register_node(self, max_retries: int = 3, ...) of src/network
SharedRegisterRetries == 3
\* register_ssh_keys(self, max_retries: int = 3)
KeyRetries == 3

\* The two RegistrationHandler classes of the repository: the node's
\* (node/network/registration_handler.py) and the shared one
\* (network/registration_handler.py).
RegistrationHandlers == {"node", "shared"}

max_retries(h) ==
    IF h = "node" THEN NodeRegisterRetries ELSE SharedRegisterRetries

\* What one call of _attempt_registration can do. The node's returns True
\* (200) or False (no metrics, another code, a RequestException). The shared
\* one returns False without metrics; with metrics it evaluates the
\* argument headers=headers, a name the module never binds: NameError, which
\* "except requests.exceptions.RequestException" does not catch.
AttemptOutcomes(h) ==
    IF h = "node" THEN {"True", "False"} ELSE {"False", "NameError"}

Keys == {"public_key", "private_key"}

\* One turn of _fetch_key_data's loop: the key (200 with a non-empty field),
\* a failure the loop retries, or an exception that is not a
\* RequestException.
FetchOutcomes == {"key", "failed", "raised"}

\* _import_private_key: ssh-add succeeded, ssh-agent could not be started,
\* ssh-add failed.
ImportOutcomes == {"added", "start_failed", "add_failed"}

NoExit == 0 - 1

\* ------------------------------------------ earlier coordinator vocabulary
\* Nodes _launch_node_benchmarks submits to in a run.
MaxCalls == 2

SubmitCalls == 1..MaxCalls

\* max_retries of NodeAPI.submit_benchmark.
SubmitMaxRetries == 3

\* requests.post raised before any answer (ConnectionError, Timeout).
NoAnswer == 0

\* How a POST /submit_custom_task can go: the status code of the answer
\* (200 with a task id, 409 busy, 401 and 500 for the other HTTP errors
\* raise_for_status raises), or no answer.
SubmitAnswers == {200, 409, 401, 500, NoAnswer}

\* ------------------------------------------------- status_lock vocabulary
\* Jobs admitted in a run of the lock view.
MaxLockJobs == 2
\* instances_num of the jobs of the lock view.
LockInstances == 1

LockJobs == 1..MaxLockJobs

\* The handler threads app.run(threaded=True) runs: one in
\* task_status_endpoint, one in a submit endpoint.
Handlers == {"task_status", "submit"}

\* threading.Lock(): nobody holds it.
Free == <<"free", 0>>

\* The lock held by handler thread h, by the thread of job j.
HeldByHandler(h) == <<h, 0>>
HeldByJob(j) == <<"job", j>>

\* The positions at which the job thread stands before a "with
\* self.status_lock:" of run_competitive_hpl_benchmark or _run_task_wrapper,
\* and the position inside each block.
LockBlocks == {"begin", "error", "complete", "finally"}
At(position) == [at |-> position, locked |-> FALSE]
Locked(block) == [at |-> block, locked |-> TRUE]

\* --------------------------------------------- queue worker vocabulary
\* Number of task ids /submit_custom_task hands out in a run.
MaxQueued == 4

QueueTaskIds == 1..MaxQueued

\* queue.Queue(maxsize=1)
QueueMaxsize == 1

\* Worker._run at position p with the task it took from the queue.
WorkerAt(p, t) == [pc |-> p, task |-> t]

\* scheduler.run_hpl_benchmark as Worker._run's try statement sees it.
RunOutcomes == {"returns", "raises"}

\* ---------------------------------------------------- ~/.ssh vocabulary
\* Longest authorized_keys the model builds.
MaxLines == 4

\* A line of text as the pieces it is made of; a key is one piece.
\* key_data of the coordinator's /get_ssh_public_key:
CoordinatorKey == <<"ssh-rsa AAAA master">>

\* The lines authorized_keys is made of: the coordinator's key and another
\* key, bare or behind options, and the coordinator's key with a further
\* comment.
KeyLines ==
    {CoordinatorKey, <<"ssh-rsa BBBB admin">>,
     <<"from=\"10.0.0.1\" ">> \o CoordinatorKey,
     <<"from=\"10.0.0.1\" ", "ssh-rsa BBBB admin">>,
     CoordinatorKey \o <<" backup">>}

VARIABLES
    current_task_id,  \* Scheduler.current_task_id (NoTask for None)
    task_status,      \* Scheduler.task_status in the worker process
    issued,           \* how many task ids uuid4 has produced for accepted jobs
    thread,           \* position of each job thread (_run_task_wrapper)
    kind,             \* which scheduler method the job thread runs
    instances_num,    \* number of HPL instances the job is to run
    processes,        \* per job, the child processes started so far
    collectl,         \* per job, whether its collectl monitor is running
    result_dirs,      \* task ids whose RESULT_DIR/<task_id> exists
    result_files      \* per task id, the files in its result directory

\* The coordinator process and the fleet it talks to.
VARIABLES
    nodes,            \* MenuHandler.nodes
    fleet,            \* per worker of the fleet, its WorkerStates value
    pc,               \* where the coordinator's menu thread is
    NodeList,         \* the list a dispatch session was called with
    next_node,        \* index of the submit loop in NodeList
    submits,          \* the submit requests of the session, with their results
    active_tasks,     \* active_tasks: an insertion-ordered dict keyed by ip
    pass,             \* what is left of list(active_tasks.items()) in this pass
    fetching,         \* the popped Completed task whose results are due
    saved,            \* per node ip, the files written in its session directory
    ping_log,         \* what the last reload pinged, with the answers
    collectl_proc     \* the coordinator's own collectl process

master_vars == <<nodes, fleet, pc, NodeList, next_node, submits, active_tasks,
                 pass, fetching, saved, ping_log, collectl_proc>>

\* The worker process from its start to app.run (main of node/server.py).
VARIABLES
    boot_pc,          \* where main() is
    handler,          \* which RegistrationHandler class register_node runs in
    reg_attempt,      \* register_node's attempt
    posts,            \* calls of _attempt_registration so far
    register_result,  \* what register_node returned ("none" while it runs)
    key_attempt,      \* _fetch_key_data's attempt
    key_gets,         \* per key, how each GET sent for it went
    keys_fetched,     \* the keys _fetch_key_data has returned
    keys_saved,       \* the keys written under ~/.ssh
    ssh_result,       \* what register_ssh_keys returned ("none" before)
    agent,            \* how _import_private_key went
    served,           \* app.run has started serving
    exit_code         \* the process's exit code (NoExit while it runs)

boot_vars == <<boot_pc, handler, reg_attempt, posts, register_result,
               key_attempt, key_gets, keys_fetched, keys_saved, ssh_result,
               agent, served, exit_code>>

\* ~/.ssh of a worker machine across the boots of its worker.
VARIABLES
    authorized_keys,  \* the lines of ~/.ssh/authorized_keys
    id_rsa_pub        \* the line of ~/.ssh/id_rsa.pub (<<>> before the first save)

keys_vars == <<authorized_keys, id_rsa_pub>>

\* The queue-based worker (Worker of src/src/worker.py behind
\* /submit_custom_task of src/src/server.py).
VARIABLES
    task_queue,              \* Worker.task_queue (queue.Queue(maxsize=1))
    worker_task_status,      \* Worker.task_status
    worker_current_task_id,  \* Worker.current_task_id (NoTask for None)
    worker_thread,           \* where Worker._run is, and with which task
    submitted                \* how many task ids 200 answers have returned

queue_vars == <<task_queue, worker_task_status, worker_current_task_id,
                worker_thread, submitted>>

\* The node worker's threads around status_lock, one step per acquire and
\* per release.
VARIABLES
    status_lock,      \* Scheduler.status_lock: the thread holding it, or Free
    slot,             \* Scheduler.current_task_id as this view sees it
    jobs,             \* how many jobs have been admitted
    job_thread,       \* per job, where its thread (_run_task_wrapper) is
    children,         \* per job, its child processes started and exited
    handler_thread    \* per HTTP handler thread, where it is

lock_vars == <<status_lock, slot, jobs, job_thread, children, handler_thread>>

\* The earlier coordinator (src/master): _launch_node_benchmarks calling
\* NodeAPI.submit_benchmark node after node.
VARIABLES
    submit_node,      \* which node of self.nodes the loop is at
    submit_attempt,   \* attempt of the submit_benchmark call under way
    submit_posts,     \* per call, the answers to the POSTs it sent, in order
    submit_task_ids   \* per call, what submit_benchmark returned (NoTask: None)

retry_vars == <<submit_node, submit_attempt, submit_posts, submit_task_ids>>

\* The components beside the node worker, the coordinator and boot.
ext_vars == <<keys_vars, queue_vars, lock_vars, retry_vars>>

other_vars == <<master_vars, boot_vars, ext_vars>>

node_vars == <<current_task_id, task_status, issued, thread, kind, instances_num,
               processes, collectl, result_dirs, result_files>>

vars == <<node_vars, other_vars>>

job_vars == <<thread, kind, instances_num, processes, collectl>>
fs_vars == <<result_dirs, result_files>>

\* A child process as the parent sees it (state) together with the child's own
\* copy of the scheduler fields it writes (fork gives the child a private copy
\* of task_status and current_task_id).
Child(state, st, cur) ==
    [state |-> state, child_task_status |-> st, child_current_task_id |-> cur]

\* MenuHandler.__init__ and the menu waiting for a choice; no worker of the
\* fleet has started.
MasterInit ==
    /\ nodes = <<>>
    /\ fleet = [w \in Fleet |-> "off"]
    /\ pc = "menu"
    /\ NodeList = <<>>
    /\ next_node = 1
    /\ submits = <<>>
    /\ active_tasks = <<>>
    /\ pass = <<>>
    /\ fetching = <<>>
    /\ saved = [ip \in IPs |-> {}]
    /\ ping_log = <<>>
    /\ collectl_proc = "none"

\* The worker process at the top of main().
BootInit ==
    /\ boot_pc = "start"
    /\ handler = "none"
    /\ reg_attempt = 0
    /\ posts = 0
    /\ register_result = "none"
    /\ key_attempt = 0
    /\ key_gets = [k \in Keys |-> <<>>]
    /\ keys_fetched = {}
    /\ keys_saved = {}
    /\ ssh_result = "none"
    /\ agent = "none"
    /\ served = FALSE
    /\ exit_code = NoExit

\* A machine whose ~/.ssh holds no key yet.
KeysInit ==
    /\ authorized_keys = <<>>
    /\ id_rsa_pub = <<>>

\* The node worker after main(): the lock free, no job, both handler
\* threads between two requests.
LockInit ==
    /\ status_lock = Free
    /\ slot = NoTask
    /\ jobs = 0
    /\ job_thread = [j \in LockJobs |-> At("none")]
    /\ children = [j \in LockJobs |-> [started |-> 0, exited |-> 0]]
    /\ handler_thread = [h \in Handlers |-> "idle"]

\* Worker.__init__: the worker thread is started and blocks in get().
QueueInit ==
    /\ task_queue = <<>>
    /\ worker_task_status = [t \in QueueTaskIds |-> "None"]
    /\ worker_current_task_id = NoTask
    /\ worker_thread = WorkerAt("get", NoTask)
    /\ submitted = 0

\* _launch_node_benchmarks is entered: no call made yet.
RetryInit ==
    /\ submit_node = 1
    /\ submit_attempt = 0
    /\ submit_posts = [c \in SubmitCalls |-> <<>>]
    /\ submit_task_ids = [c \in SubmitCalls |-> NoTask]

Init ==
    /\ current_task_id = NoTask
    /\ task_status = [t \in TaskIds |-> "None"]
    /\ issued = 0
    /\ thread = [t \in TaskIds |-> "none"]
    /\ kind = [t \in TaskIds |-> "none"]
    /\ instances_num = [t \in TaskIds |-> 0]
    /\ processes = [t \in TaskIds |-> <<>>]
    /\ collectl = [t \in TaskIds |-> FALSE]
    /\ result_dirs = {}
    /\ result_files = [t \in TaskIds |-> {}]
    /\ MasterInit
    /\ BootInit
    /\ KeysInit
    /\ QueueInit
    /\ LockInit
    /\ RetryInit

\* ------------------------------------------------------- HTTP handlers
\* The task ids returned so far in 200 submit responses (uuid4 gives each
\* accepted job a fresh id; ids are numbered in the order they are issued).
Returned == 1..issued

\* Worker._submit_task: under status_lock, refuse when the slot is taken.
SlotFree == current_task_id = NoTask

\* AdmitTask with the status write left to the job thread: the slot is taken
\* and the thread started, but task_status gets its entry only in RunBegin.
AdmitTaskStatusLate(t, k, n) ==
    /\ current_task_id' = t
    /\ thread' = [thread EXCEPT ![t] = "begin"]
    /\ kind' = [kind EXCEPT ![t] = k]
    /\ instances_num' = [instances_num EXCEPT ![t] = n]
    /\ UNCHANGED <<task_status, processes, collectl>>

\* Worker._submit_task past the busy test: under status_lock the slot and the
\* status are set, then the job thread is started.
AdmitTask(t, k, n) ==
    /\ current_task_id' = t
    /\ task_status' = [task_status EXCEPT ![t] = "Running"]
    /\ thread' = [thread EXCEPT ![t] = "begin"]
    /\ kind' = [kind EXCEPT ![t] = k]
    /\ instances_num' = [instances_num EXCEPT ![t] = n]
    /\ UNCHANGED <<processes, collectl>>

\* The status code of submit_competitive_benchmark / submit_cooperative_benchmark
\* for body p in the current state: the body is tested for falsiness only (400),
\* the keys are indexed (a missing key raises KeyError, which safe_endpoint
\* turns into 500), and Worker._submit_task decides between 200 and 409.
SubmitCode(p) ==
    IF p.json = "empty" THEN 400
    ELSE IF p.json = "missing" THEN 500
    ELSE IF SlotFree THEN 200
    ELSE 409

\* The submit handlers: a refused request changes nothing; an accepted one
\* draws a fresh uuid and admits the task.
SubmitHandler(k, p) ==
    \/ /\ SubmitCode(p) # 200
       /\ UNCHANGED vars
    \/ /\ SubmitCode(p) = 200
       /\ issued < MaxTasks
       /\ issued' = issued + 1
       /\ AdmitTask(issued + 1, k, p.instances_num)
       /\ UNCHANGED <<fs_vars, other_vars>>

SubmitCompetitive ==
    \E p \in CompetitivePayloads : SubmitHandler("competitive", p)

SubmitCooperative ==
    \E p \in CooperativePayloads : SubmitHandler("cooperative", p)

\* get_task_status with "Running" as the default of task_status.get.
get_task_statusDefault(t) ==
    IF task_status[t] = "None" THEN "Running" ELSE task_status[t]

\* Scheduler.get_task_status: task_status.get(task_id, None) under the lock.
get_task_status(t) == task_status[t]

\* task_status_endpoint: 404 for an unknown id, else 200 with the status.
TaskStatusCode(t) == IF get_task_status(t) = "None" THEN 404 ELSE 200

TaskStatusEndpoint(t) ==
    /\ TaskStatusCode(t) \in {200, 404}
    /\ UNCHANGED vars

\* get_results: looks at the result directory only, never at task_status
\* (the 500 it gives when a listed file cannot be read is left out: the files
\* are text written by mpirun and collectl).
GetResultsCode(t) ==
    IF t \notin result_dirs THEN 404
    ELSE IF result_files[t] = {} THEN 404
    ELSE 200

\* GetResults removing the files it has served.
GetResultsConsuming(t) ==
    /\ GetResultsCode(t) \in {200, 404}
    /\ result_files' = [result_files EXCEPT ![t] = {}]
    /\ UNCHANGED <<current_task_id, task_status, issued, thread, kind,
                   instances_num, processes, collectl, result_dirs>>
    /\ UNCHANGED other_vars

GetResults(t) ==
    /\ GetResultsCode(t) \in {200, 404}
    /\ UNCHANGED vars

\* ---------------------------------------------------------- job thread
\* run_competitive_hpl_benchmark and run_cooperative_hpl_benchmark take the
\* same steps; the cooperative job generates a hostfile beside the deck and
\* starts one process where the competitive job starts instances_num.
\* run_*_hpl_benchmark, first lock block: task_status[instance_id] = "Running".
RunBegin(t) ==
    /\ thread[t] = "begin"
    /\ task_status' = [task_status EXCEPT ![t] = "Running"]
    /\ thread' = [thread EXCEPT ![t] = "mkdir"]
    /\ UNCHANGED <<current_task_id, issued, kind, instances_num, processes,
                   collectl, fs_vars>>
    /\ UNCHANGED other_vars

\* RESULT_DIR.mkdir(...); task_result_dir.mkdir(...)
MakeResultDir(t) ==
    /\ thread[t] = "mkdir"
    /\ result_dirs' = result_dirs \cup {t}
    /\ thread' = [thread EXCEPT ![t] = "config"]
    /\ UNCHANGED <<current_task_id, task_status, issued, kind, instances_num,
                   processes, collectl, result_files>>
    /\ UNCHANGED other_vars

\* except ValueError: under the lock, "Configuration Error" and the slot
\* cleared; the method returns to _run_task_wrapper.
ConfigurationError(t) ==
    /\ task_status' = [task_status EXCEPT ![t] = "Configuration Error"]
    /\ current_task_id' = NoTask
    /\ thread' = [thread EXCEPT ![t] = "finally"]

\* The try block around generate_hpl_config (and generate_hosts_file): only
\* ValueError is caught; any other exception leaves the method and is logged
\* by _run_task_wrapper.
GenerateConfig(t, outcome) ==
    /\ thread[t] = "config"
    /\ \/ /\ outcome = "ok"
          /\ thread' = [thread EXCEPT ![t] = "prepare"]
          /\ UNCHANGED <<current_task_id, task_status>>
       \/ /\ outcome = "ValueError"
          /\ ConfigurationError(t)
       \/ /\ outcome = "OtherError"
          /\ thread' = [thread EXCEPT ![t] = "finally"]
          /\ UNCHANGED <<current_task_id, task_status>>
    /\ UNCHANGED <<issued, kind, instances_num, processes, collectl, fs_vars>>
    /\ UNCHANGED other_vars

\* The HPLInstance constructors (one per instance): _prepare_environment
\* copies the binary and the deck and may raise; the exception leaves the
\* scheduler method. With no instance to build nothing can raise.
PrepareInstances(t, ok) ==
    /\ thread[t] = "prepare"
    /\ \/ /\ ok
          /\ thread' = [thread EXCEPT ![t] = "collectl"]
       \/ /\ ~ok
          /\ instances_num[t] > 0
          /\ thread' = [thread EXCEPT ![t] = "finally"]
    /\ UNCHANGED <<current_task_id, task_status, issued, kind, instances_num,
                   processes, collectl, fs_vars>>
    /\ UNCHANGED other_vars

\* collectl_interface.start_collectl: a failure is swallowed (the error text
\* is returned); on success collectl writes collectl.log in the result dir.
StartCollectl(t, ok) ==
    /\ thread[t] = "collectl"
    /\ \/ /\ ok
          /\ collectl' = [collectl EXCEPT ![t] = TRUE]
          /\ result_files' = [result_files EXCEPT ![t] = @ \cup {CollectlLog}]
       \/ /\ ~ok
          /\ UNCHANGED <<collectl, result_files>>
    /\ thread' = [thread EXCEPT ![t] = "spawn"]
    /\ UNCHANGED <<current_task_id, task_status, issued, kind, instances_num,
                   processes, result_dirs>>
    /\ UNCHANGED other_vars

\* Process(target=self._run_instance, ...).start(): the child starts with a
\* copy of the parent's memory.
SpawnChild(t) ==
    /\ thread[t] = "spawn"
    /\ Len(processes[t]) < instances_num[t]
    /\ processes' = [processes EXCEPT ![t] =
                       Append(@, Child("started", task_status[t], current_task_id))]
    /\ UNCHANGED <<current_task_id, task_status, issued, thread, kind,
                   instances_num, collectl, fs_vars>>
    /\ UNCHANGED other_vars

Exited(c) == c.state \in {"ok", "failed"}

\* JoinAll that does not wait for the children it started.
JoinNone(t) ==
    /\ thread[t] = "spawn"
    /\ Len(processes[t]) >= instances_num[t]
    /\ thread' = [thread EXCEPT ![t] = "stop_collectl"]
    /\ UNCHANGED <<current_task_id, task_status, issued, kind, instances_num,
                   processes, collectl, fs_vars>>
    /\ UNCHANGED other_vars

\* for process in processes: process.join()
JoinAll(t) ==
    /\ thread[t] = "spawn"
    /\ Len(processes[t]) >= instances_num[t]
    /\ \A i \in 1..Len(processes[t]) : Exited(processes[t][i])
    /\ thread' = [thread EXCEPT ![t] = "stop_collectl"]
    /\ UNCHANGED <<current_task_id, task_status, issued, kind, instances_num,
                   processes, collectl, fs_vars>>
    /\ UNCHANGED other_vars

\* collectl_interface.stop_collectl (failures swallowed)
StopCollectl(t) ==
    /\ thread[t] = "stop_collectl"
    /\ collectl' = [collectl EXCEPT ![t] = FALSE]
    /\ thread' = [thread EXCEPT ![t] = "complete"]
    /\ UNCHANGED <<current_task_id, task_status, issued, kind, instances_num,
                   processes, fs_vars>>
    /\ UNCHANGED other_vars

\* Complete with the slot left for _run_task_wrapper's finally to clear.
CompleteKeepSlot(t) ==
    /\ thread[t] = "complete"
    /\ task_status' = [task_status EXCEPT ![t] = "Completed"]
    /\ thread' = [thread EXCEPT ![t] = "finally"]
    /\ UNCHANGED <<current_task_id, issued, kind, instances_num, processes,
                   collectl, fs_vars>>
    /\ UNCHANGED other_vars

\* Last lock block of run_*_hpl_benchmark: "Completed", slot cleared.
Complete(t) ==
    /\ thread[t] = "complete"
    /\ task_status' = [task_status EXCEPT ![t] = "Completed"]
    /\ current_task_id' = NoTask
    /\ thread' = [thread EXCEPT ![t] = "finally"]
    /\ UNCHANGED <<issued, kind, instances_num, processes, collectl, fs_vars>>
    /\ UNCHANGED other_vars

\* _run_task_wrapper's finally: current_task_id = None, whatever it names.
\* The thread ends here and the method's arguments and locals (the list of
\* Process objects among them) are gone with it.
WrapperFinally(t) ==
    /\ thread[t] = "finally"
    /\ current_task_id' = NoTask
    /\ thread' = [thread EXCEPT ![t] = "done"]
    /\ kind' = [kind EXCEPT ![t] = "none"]
    /\ instances_num' = [instances_num EXCEPT ![t] = 0]
    /\ processes' = [processes EXCEPT ![t] = <<>>]
    /\ UNCHANGED <<task_status, issued, collectl, fs_vars>>
    /\ UNCHANGED other_vars

\* ------------------------------------------------------ child processes
SetChild(t, i, c) == processes' = [processes EXCEPT ![t][i] = c]

\* HPLInstance.run: open(self.result_file, "w") creates the result file, then
\* mpirun runs with its output redirected to it.
ChildOpen(t, i) ==
    /\ i \in 1..Len(processes[t])
    /\ processes[t][i].state = "started"
    /\ SetChild(t, i, [processes[t][i] EXCEPT !.state = "running"])
    /\ result_files' = [result_files EXCEPT ![t] = @ \cup {ResultFile(i)}]
    /\ UNCHANGED <<current_task_id, task_status, issued, thread, kind,
                   instances_num, collectl, result_dirs>>
    /\ UNCHANGED other_vars

\* mpirun exits 0: run returns, the child process ends.
ChildSucceed(t, i) ==
    /\ i \in 1..Len(processes[t])
    /\ processes[t][i].state = "running"
    /\ SetChild(t, i, [processes[t][i] EXCEPT !.state = "ok"])
    /\ UNCHANGED <<current_task_id, task_status, issued, thread, kind,
                   instances_num, collectl, fs_vars>>
    /\ UNCHANGED other_vars

\* ChildFail with _run_instance running in the worker process itself (a thread
\* instead of a forked process): its writes land in the worker's scheduler.
ChildFailShared(t, i) ==
    /\ i \in 1..Len(processes[t])
    /\ processes[t][i].state = "running"
    /\ processes' = [processes EXCEPT ![t][i] = Child("failed", "Execution Error", NoTask)]
    /\ task_status' = [task_status EXCEPT ![t] = "Execution Error"]
    /\ current_task_id' = NoTask
    /\ UNCHANGED <<issued, thread, kind, instances_num, collectl, fs_vars>>
    /\ UNCHANGED other_vars

\* mpirun exits non-zero: run raises CalledProcessError and _run_instance's
\* except block sets "Execution Error" and clears current_task_id, in the
\* child process: the writes land in the child's copy of the scheduler.
\* (A child forked while a handler thread held status_lock blocks on its copy
\* of the lock for ever: that child is one that stays "running".)
ChildFail(t, i) ==
    /\ i \in 1..Len(processes[t])
    /\ processes[t][i].state = "running"
    /\ SetChild(t, i, Child("failed", "Execution Error", NoTask))
    /\ UNCHANGED <<current_task_id, task_status, issued, thread, kind,
                   instances_num, collectl, fs_vars>>
    /\ UNCHANGED other_vars

\* ---------------------------------------------------------------- system
\* The threads of the worker process and its children, with the generator's
\* outcomes drawn from G.
NextWith(G) ==
    \/ SubmitCompetitive
    \/ SubmitCooperative
    \/ \E t \in TaskIds : TaskStatusEndpoint(t)
    \/ \E t \in TaskIds : GetResults(t)
    \/ \E t \in TaskIds : RunBegin(t)
    \/ \E t \in TaskIds : MakeResultDir(t)
    \/ \E t \in TaskIds : \E o \in G : GenerateConfig(t, o)
    \/ \E t \in TaskIds : \E ok \in BOOLEAN : PrepareInstances(t, ok)
    \/ \E t \in TaskIds : \E ok \in BOOLEAN : StartCollectl(t, ok)
    \/ \E t \in TaskIds : SpawnChild(t)
    \/ \E t \in TaskIds : JoinAll(t)
    \/ \E t \in TaskIds : StopCollectl(t)
    \/ \E t \in TaskIds : Complete(t)
    \/ \E t \in TaskIds : WrapperFinally(t)
    \/ \E t \in TaskIds : \E i \in 1..MaxInstances : ChildOpen(t, i)
    \/ \E t \in TaskIds : \E i \in 1..MaxInstances : ChildSucceed(t, i)
    \/ \E t \in TaskIds : \E i \in 1..MaxInstances : ChildFail(t, i)

Next == NextWith(GeneratorOutcomes)

Spec == Init /\ [][Next]_vars

\* The worker with a generator that fails by ValueError only, the one failure
\* the scheduler's call sites expect.
NextValueErrorOnly == NextWith(GeneratorOutcomes \ {"OtherError"})

SpecValueErrorOnly == Init /\ [][NextValueErrorOnly]_vars

\* ============================================================ coordinator
\* ------------------------------------------------------------- the fleet
\* A worker process gets to app.run: main() has registered with the
\* coordinator before (node/server.py), and a fresh process has an empty
\* task_status.
WorkerServe(w) ==
    /\ fleet[w] = "off"
    /\ \E i \in 1..Len(nodes) : <<nodes[i].ip, NodePort(nodes[i].data)>> = w
    /\ fleet' = [fleet EXCEPT ![w] = "idle"]
    /\ UNCHANGED <<nodes, pc, NodeList, next_node, submits, active_tasks, pass,
                   fetching, saved, ping_log, collectl_proc, node_vars, boot_vars, ext_vars>>

\* A worker process ends (killed, crashed, host down).
WorkerExit(w) ==
    /\ fleet[w] # "off"
    /\ fleet' = [fleet EXCEPT ![w] = "off"]
    /\ UNCHANGED <<nodes, pc, NodeList, next_node, submits, active_tasks, pass,
                   fetching, saved, ping_log, collectl_proc, node_vars, boot_vars, ext_vars>>

\* The worker's job thread writes a terminal status (Scheduler's last lock
\* block, or its except ValueError block).
JobEnds(w, status) ==
    /\ fleet[w] = "Running"
    /\ fleet' = [fleet EXCEPT ![w] = status]
    /\ UNCHANGED <<nodes, pc, NodeList, next_node, submits, active_tasks, pass,
                   fetching, saved, ping_log, collectl_proc, node_vars, boot_vars, ext_vars>>

\* How an HTTP exchange with a worker can go: answered within the timeout, or
\* lost (timeout, connection reset).
Net == {"answered", "lost"}

\* ---------------------------------------------------------- the registry
\* What the operator driver hands to launch_*_benchmark as NodeList: the
\* registry list itself ("for each registered node in turn"), not a copy
\* of it.
SessionNodeList(registry) == registry

\* register_node of master/server.py calling MenuHandler.register_node with
\* request.remote_addr and the body: the entry is appended, under no lock.
\* While a session holds the registry as its NodeList the append is an
\* append to NodeList: they are one list object.
Register(ip, data) ==
    /\ pc # "crashed"
    /\ Len(nodes) < MaxNodes
    /\ <<ip, NodePort(data)>> \in Fleet
    /\ nodes' = Append(nodes, NodeEntry(ip, data))
    /\ NodeList' = IF NodeList = <<>> THEN NodeList ELSE SessionNodeList(nodes')
    /\ UNCHANGED <<fleet, pc, next_node, submits, active_tasks, pass,
                   fetching, saved, ping_log, collectl_proc, node_vars, boot_vars, ext_vars>>

\* ------------------------------------------------------------- NodeAPI
\* A task id as NodeAPI hands it to the session: NoTask stands for None.
\* The ids of a session are numbered in the order the workers issued them.
FreshTaskId == Len(submits) + 1

\* One entry of the session's record of submit requests.
Request(w, route, node_slots, task_id) ==
    [ip |-> w[1], port |-> w[2], route |-> route, node_slots |-> node_slots,
     task_id |-> task_id]

\* One value of active_tasks with its key: "api" is NodeAPI(ip, port).
Task(ip, port, task_id) == [ip |-> ip, port |-> port, task_id |-> task_id]

\* NodeAPI.submit_competitive_benchmark / submit_cooperative_benchmark: the
\* task_id of a 200 answer; None for 409 (raise_for_status) and for any
\* transport failure. The worker answers 200 when its slot is free.
submit_benchmark(w, net) ==
    IF net = "lost" \/ fleet[w] \in {"off", "Running"} THEN NoTask
    ELSE FreshTaskId

\* NodeAPI.get_task_status: the status of a 200 answer, None ("None") for a
\* 404 (the worker does not know the id) and for any transport failure.
NodeAPI_get_task_status(w, net) ==
    IF net = "lost" \/ fleet[w] \in {"off", "idle"} THEN "None"
    ELSE fleet[w]

\* NodeAPI.get_benchmark_results: True with every file of the envelope
\* written, False (nothing written) when the GET fails.
get_benchmark_results(w, net) == net = "answered" /\ fleet[w] # "off"

\* NodeAPI.ping: GET /ping is answered 200 {"message": "pong"} or not. The
\* worker's route is declared methods=["POST"], so Flask answers a GET with
\* 405.
PingRoute(method) == IF method = "POST" THEN 200 ELSE 405

\* ping with its except block returning True.
pingExceptTrue(w, net) ==
    \/ net = "lost"
    \/ fleet[w] = "off"
    \/ PingRoute("GET") = 200

ping(w, net) ==
    /\ net = "answered"
    /\ fleet[w] # "off"
    /\ PingRoute("GET") = 200

\* ---------------------------------------------------- active_tasks (dict)
Index(d, ip) == {i \in 1..Len(d) : d[i].ip = ip}

\* d[ip] = task: a new key goes last, an existing key keeps its place.
Put(d, task) ==
    IF Index(d, task.ip) = {} THEN Append(d, task)
    ELSE [i \in 1..Len(d) |-> IF d[i].ip = task.ip THEN task ELSE d[i]]

\* Pop emptying the dict (d.clear()).
PopAll(d, ip) == SelectSeq(d, LAMBDA e : FALSE)

\* d.pop(ip)
Pop(d, ip) == SelectSeq(d, LAMBDA e : e.ip # ip)

\* ------------------------------------------------------ dispatch sessions
\* What a new session starts from: benchmark_environment is a fresh
\* timestamped directory, active_tasks = {}.
NewSession ==
    /\ NodeList' = SessionNodeList(nodes)
    /\ next_node' = 1
    /\ submits' = <<>>
    /\ active_tasks' = <<>>
    /\ pass' = <<>>
    /\ fetching' = <<>>
    /\ saved' = [ip \in IPs |-> {}]
    /\ collectl_proc' = "running"

\* The operator starts a competitive dispatch: launch_competitive_benchmark
\* is entered with the registry (the menu refuses an empty one).
LaunchCompetitive ==
    /\ pc = "menu"
    /\ nodes # <<>>
    /\ NewSession
    /\ pc' = "submit"
    /\ UNCHANGED <<nodes, fleet, ping_log, node_vars, boot_vars, ext_vars>>

\* One turn of "for node in NodeList": the submit, and on a task_id the
\* entry active_tasks[ip].
SubmitToNode(net) ==
    /\ pc = "submit"
    /\ next_node <= Len(NodeList)
    /\ LET node == NodeList[next_node]
           w == <<node.ip, NodePort(node.data)>>
           task_id == submit_benchmark(w, net)
       IN  /\ submits' = Append(submits,
                  Request(w, "/submit_competitive_benchmark", {}, task_id))
           /\ IF task_id # NoTask
              THEN /\ fleet' = [fleet EXCEPT ![w] = "Running"]
                   /\ active_tasks' = Put(active_tasks, Task(node.ip, w[2], task_id))
              ELSE UNCHANGED <<fleet, active_tasks>>
    /\ next_node' = next_node + 1
    /\ UNCHANGED <<nodes, pc, NodeList, pass, fetching, saved, ping_log, collectl_proc, node_vars, boot_vars, ext_vars>>

\* The for loop is over: wait_benchmark_completion(active_tasks) is called.
SubmitsDone ==
    /\ pc = "submit"
    /\ next_node > Len(NodeList)
    /\ pc' = "while"
    /\ UNCHANGED <<nodes, fleet, NodeList, next_node, submits, active_tasks,
                   pass, fetching, saved, ping_log, collectl_proc, node_vars, boot_vars, ext_vars>>

\* launch_cooperative_benchmark: one submit to NodeList[0] with a slot entry
\* per ip of NodeList, then wait_benchmark_completion.
LaunchCooperative(net) ==
    /\ pc = "menu"
    /\ nodes # <<>>
    /\ LET first_node == nodes[1]
           w == <<first_node.ip, NodePort(first_node.data)>>
           node_slots == {nodes[i].ip : i \in 1..Len(nodes)}
           task_id == submit_benchmark(w, net)
       IN  /\ submits' = <<Request(w, "/submit_cooperative_benchmark",
                                   node_slots, task_id)>>
           /\ IF task_id # NoTask
              THEN /\ fleet' = [fleet EXCEPT ![w] = "Running"]
                   /\ active_tasks' = <<Task(first_node.ip, w[2], task_id)>>
              ELSE /\ active_tasks' = <<>>
                   /\ UNCHANGED fleet
    /\ NodeList' = nodes
    /\ next_node' = 1
    /\ pass' = <<>>
    /\ fetching' = <<>>
    /\ saved' = [ip \in IPs |-> {}]
    /\ pc' = "while"
    /\ collectl_proc' = "running"
    /\ UNCHANGED <<nodes, ping_log, node_vars, boot_vars, ext_vars>>

\* MenuHandler.run_cooperative_benchmarks (menu entry 5) up to its submit:
\* the request goes to the first node with node_slots = {ip: node_slot_value}.
MenuCooperative(net) ==
    /\ pc = "menu"
    /\ nodes # <<>>
    /\ LET first_node == nodes[1]
           w == <<first_node.ip, NodePort(first_node.data)>>
           node_slots == {first_node.ip}
           task_id == submit_benchmark(w, net)
       IN  /\ submits' = <<Request(w, "/submit_cooperative_benchmark",
                                   node_slots, task_id)>>
           /\ IF task_id # NoTask
              THEN /\ fleet' = [fleet EXCEPT ![w] = "Running"]
                   /\ active_tasks' = <<Task(first_node.ip, w[2], task_id)>>
              ELSE /\ active_tasks' = <<>>
                   /\ UNCHANGED fleet
    /\ NodeList' = nodes
    /\ next_node' = 1
    /\ pass' = <<>>
    /\ fetching' = <<>>
    /\ saved' = [ip \in IPs |-> {}]
    /\ pc' = "menu_monitor"
    /\ UNCHANGED <<nodes, ping_log, collectl_proc, node_vars, boot_vars, ext_vars>>

\* The rest of run_cooperative_benchmarks. Without a task_id the method
\* returns to the menu. With one, its monitoring calls api.check_status,
\* which NodeAPI does not define: AttributeError ends the menu thread, and
\* with it the process (the HTTP thread is a daemon).
MenuMonitor ==
    /\ pc = "menu_monitor"
    /\ pc' = IF active_tasks = <<>> THEN "menu" ELSE "crashed"
    /\ NodeList' = <<>>
    /\ submits' = <<>>
    /\ active_tasks' = <<>>
    /\ UNCHANGED <<nodes, fleet, next_node, pass, fetching, saved, ping_log, collectl_proc, node_vars, boot_vars, ext_vars>>

\* ----------------------------------------------------------- monitor loop
\* "while active_tasks:" and the snapshot list(active_tasks.items()).
WhileActive ==
    /\ pc = "while"
    /\ IF active_tasks = <<>>
       THEN pc' = "teardown" /\ pass' = <<>>
       ELSE pc' = "for" /\ pass' = active_tasks
    /\ UNCHANGED <<nodes, fleet, NodeList, next_node, submits, active_tasks,
                   fetching, saved, ping_log, collectl_proc, node_vars, boot_vars, ext_vars>>

\* PollTask with the loop waiting for one task at a time: a task that is
\* left in active_tasks ends the pass (break).
PollTaskBreaks(net) ==
    /\ pc = "for"
    /\ pass # <<>>
    /\ LET task == Head(pass)
           status == NodeAPI_get_task_status(<<task.ip, task.port>>, net)
       IN  /\ active_tasks' = IF status \in {"Completed", "Error", "None"}
                              THEN Pop(active_tasks, task.ip)
                              ELSE active_tasks
           /\ IF status = "Completed"
              THEN fetching' = <<task>> /\ pc' = "fetch"
              ELSE UNCHANGED <<fetching, pc>>
           /\ pass' = IF status \in {"Completed", "Error", "None"}
                      THEN Tail(pass) ELSE <<>>
    /\ UNCHANGED <<nodes, fleet, NodeList, next_node, submits, saved, ping_log, collectl_proc, node_vars, boot_vars, ext_vars>>

\* One turn of the for loop up to the end of its if chain: the status GET
\* and the branch it selects. "Completed", "Error" and None pop the task;
\* "Running" and every other status leave it.
PollTask(net) ==
    /\ pc = "for"
    /\ pass # <<>>
    /\ LET task == Head(pass)
           status == NodeAPI_get_task_status(<<task.ip, task.port>>, net)
       IN  /\ active_tasks' = IF status \in {"Completed", "Error", "None"}
                              THEN Pop(active_tasks, task.ip)
                              ELSE active_tasks
           /\ IF status = "Completed"
              THEN fetching' = <<task>> /\ pc' = "fetch"
              ELSE UNCHANGED <<fetching, pc>>
    /\ pass' = Tail(pass)
    /\ UNCHANGED <<nodes, fleet, NodeList, next_node, submits, saved, ping_log, collectl_proc, node_vars, boot_vars, ext_vars>>

\* The rest of the "Completed" branch: task_dir.mkdir and
\* api.get_benchmark_results(task_id, task_dir), its result dropped.
FetchResults(net) ==
    /\ pc = "fetch"
    /\ LET task == fetching[1]
       IN  saved' = IF get_benchmark_results(<<task.ip, task.port>>, net)
                    THEN [saved EXCEPT ![task.ip] = @ \cup Envelope]
                    ELSE saved
    /\ fetching' = <<>>
    /\ pc' = "for"
    /\ UNCHANGED <<nodes, fleet, NodeList, next_node, submits, active_tasks,
                   pass, ping_log, collectl_proc, node_vars, boot_vars, ext_vars>>

\* The for loop is over: sleep when tasks are left, then the while test.
PassDone ==
    /\ pc = "for"
    /\ pass = <<>>
    /\ pc' = "while"
    /\ UNCHANGED <<nodes, fleet, NodeList, next_node, submits, active_tasks,
                   pass, fetching, saved, ping_log, collectl_proc, node_vars, boot_vars, ext_vars>>

\* SessionRaises with the exception leaving launch_*_benchmark at once (a
\* try without its finally).
SessionRaisesNoFinally ==
    /\ pc \in {"submit", "while", "for", "fetch"}
    /\ pc' = "raised"
    /\ NodeList' = <<>>
    /\ next_node' = 1
    /\ submits' = <<>>
    /\ active_tasks' = <<>>
    /\ pass' = <<>>
    /\ fetching' = <<>>
    /\ saved' = [ip \in IPs |-> {}]
    /\ UNCHANGED <<nodes, fleet, ping_log, collectl_proc, node_vars, boot_vars, ext_vars>>

\* An exception leaves the try body of launch_*_benchmark: an OSError of
\* node_dir.mkdir or task_dir.mkdir, a KeyboardInterrupt while the loop
\* sleeps or waits for a worker. Control goes to the finally block.
SessionRaises ==
    /\ pc \in {"submit", "while", "for", "fetch"}
    /\ pc' = "teardown_raised"
    /\ UNCHANGED <<nodes, fleet, NodeList, next_node, submits, active_tasks,
                   pass, fetching, saved, ping_log, collectl_proc, node_vars,
                   boot_vars, ext_vars>>

\* The finally block of launch_*_benchmark: collectl_proc.terminate() and
\* collectl_proc.wait(). The function then returns to the menu, or the
\* exception that brought it here goes on to its caller; its locals are
\* gone either way (the session's directory is never used again).
Teardown ==
    /\ pc \in {"teardown", "teardown_raised"}
    /\ collectl_proc' = "terminated"
    /\ pc' = IF pc = "teardown" THEN "menu" ELSE "raised"
    /\ NodeList' = <<>>
    /\ next_node' = 1
    /\ submits' = <<>>
    /\ active_tasks' = <<>>
    /\ pass' = <<>>
    /\ fetching' = <<>>
    /\ saved' = [ip \in IPs |-> {}]
    /\ UNCHANGED <<nodes, fleet, ping_log, node_vars, boot_vars, ext_vars>>

\* ------------------------------------------------------------------ reload
\* reload: every registered node is pinged and the nodes whose ping fails
\* are removed, under the registry's lock. answers says, per ip, how the
\* exchange with that machine goes.
Pinged(answers) ==
    [i \in 1..Len(nodes) |->
        [ip |-> nodes[i].ip, port |-> NodePort(nodes[i].data),
         pong |-> ping(<<nodes[i].ip, NodePort(nodes[i].data)>>, answers[nodes[i].ip])]]

Reload(answers) ==
    /\ pc = "menu"
    /\ nodes # <<>>
    /\ ping_log' = Pinged(answers)
    /\ nodes' = SelectSeq(nodes,
                  LAMBDA n : ping(<<n.ip, NodePort(n.data)>>, answers[n.ip]))
    /\ UNCHANGED <<fleet, pc, NodeList, next_node, submits, active_tasks, pass,
                   fetching, saved, collectl_proc, node_vars, boot_vars, ext_vars>>

\* ------------------------------------------------------------------ system
\* The bodies the dispatch model registers nodes with: what the dispatch
\* reads of a body is its port.
DispatchBodies == {Metrics(NoPort, 8), Metrics(5001, 8)}

\* One step of the menu thread inside a dispatch session.
SessionStep ==
    \/ \E net \in Net : SubmitToNode(net)
    \/ SubmitsDone
    \/ MenuMonitor
    \/ WhileActive
    \/ \E net \in Net : PollTask(net)
    \/ \E net \in Net : FetchResults(net)
    \/ PassDone
    \/ Teardown

\* The coordinator's HTTP thread and menu thread, and the fleet.
MasterNext ==
    \/ \E ip \in IPs : \E data \in DispatchBodies : Register(ip, data)
    \/ \E w \in Fleet : WorkerServe(w)
    \/ \E w \in Fleet : WorkerExit(w)
    \/ \E w \in Fleet : \E st \in {"Completed", "Configuration Error"} : JobEnds(w, st)
    \/ LaunchCompetitive
    \/ \E net \in Net : SubmitToNode(net)
    \/ SubmitsDone
    \/ \E net \in Net : LaunchCooperative(net)
    \/ \E net \in Net : MenuCooperative(net)
    \/ MenuMonitor
    \/ WhileActive
    \/ \E net \in Net : PollTask(net)
    \/ \E net \in Net : FetchResults(net)
    \/ PassDone
    \/ SessionRaises
    \/ Teardown

MasterSpec == Init /\ [][MasterNext]_vars

\* The menu thread keeps running while it is in a session: its sleeps are
\* finite and every HTTP call it makes has a timeout.
MasterFairSpec == MasterSpec /\ WF_vars(SessionStep)

\* The registry alone: registrations, reload and the workers coming and
\* going, with the menu idle.
RegistryNext ==
    \/ \E ip \in IPs : \E data \in RegisterBodies : Register(ip, data)
    \/ \E ip \in IPs : \E data \in DeclaringBodies : Register(ip, data)
    \/ \E w \in Fleet : WorkerServe(w)
    \/ \E w \in Fleet : WorkerExit(w)
    \/ \E answers \in [IPs -> Net] : Reload(answers)

RegistrySpec == Init /\ [][RegistryNext]_vars

\* ================================================================== boot
\* main() of node/server.py: register with the coordinator, install the SSH
\* keys, then serve. RegistrationHandler is imported from
\* master_handler.registration_handler; the repository holds the class twice,
\* and main runs the one deployed under that name.
BootUnchanged == UNCHANGED <<node_vars, master_vars, ext_vars>>

\* registration_handler.register_node(): attempt = 0.
BootRegister(h) ==
    /\ boot_pc = "start"
    /\ boot_pc' = "register"
    /\ handler' = h
    /\ reg_attempt' = 0
    /\ UNCHANGED <<posts, register_result, key_attempt, key_gets,
                   keys_fetched, keys_saved, ssh_result, agent, served,
                   exit_code>>
    /\ BootUnchanged

\* One turn of "while attempt < max_retries": _attempt_registration, then
\* return True, or attempt += 1 and sleep. An exception leaves register_node
\* and main, and the interpreter exits with code 1.
AttemptRegistration(outcome) ==
    /\ boot_pc = "register"
    /\ reg_attempt < max_retries(handler)
    /\ outcome \in AttemptOutcomes(handler)
    /\ posts' = posts + 1
    /\ CASE outcome = "True" ->
              /\ register_result' = "True"
              /\ boot_pc' = "fetch_public"
              /\ UNCHANGED <<reg_attempt, exit_code>>
         [] outcome = "False" ->
              /\ reg_attempt' = reg_attempt + 1
              /\ UNCHANGED <<register_result, boot_pc, exit_code>>
         [] OTHER ->
              /\ register_result' = "raised"
              /\ boot_pc' = "exited"
              /\ exit_code' = 1
              /\ UNCHANGED reg_attempt
    /\ UNCHANGED <<handler, key_attempt, key_gets, keys_fetched, keys_saved,
                   ssh_result, agent, served>>
    /\ BootUnchanged

\* A main that goes on to the keys whatever register_node returned.
RegistrationGivesUpUnchecked ==
    /\ boot_pc = "register"
    /\ reg_attempt >= max_retries(handler)
    /\ register_result' = "False"
    /\ boot_pc' = "fetch_public"
    /\ UNCHANGED <<handler, reg_attempt, posts, key_attempt, key_gets,
                   keys_fetched, keys_saved, ssh_result, agent, served,
                   exit_code>>
    /\ BootUnchanged

\* The loop is over: register_node returns False, and main's
\* "if not registration_handler.register_node(): sys.exit(1)".
RegistrationGivesUp ==
    /\ boot_pc = "register"
    /\ reg_attempt >= max_retries(handler)
    /\ register_result' = "False"
    /\ boot_pc' = "exited"
    /\ exit_code' = 1
    /\ UNCHANGED <<handler, reg_attempt, posts, key_attempt, key_gets,
                   keys_fetched, keys_saved, ssh_result, agent, served>>
    /\ BootUnchanged

\* The key register_ssh_keys is fetching or saving.
CurrentKey ==
    IF boot_pc \in {"fetch_public", "save_public"} THEN "public_key"
    ELSE "private_key"

\* One turn of _fetch_key_data's "while attempt < max_retries": attempt += 1,
\* the GET, and the key returned, or the failure logged and the sleep.
FetchKey(outcome) ==
    /\ boot_pc \in {"fetch_public", "fetch_private"}
    /\ key_attempt < KeyRetries
    /\ key_attempt' = key_attempt + 1
    /\ key_gets' = [key_gets EXCEPT ![CurrentKey] = Append(@, outcome)]
    /\ CASE outcome = "key" ->
              /\ keys_fetched' = keys_fetched \cup {CurrentKey}
              /\ boot_pc' = IF boot_pc = "fetch_public" THEN "save_public"
                            ELSE "save_private"
              /\ UNCHANGED <<ssh_result, exit_code>>
         [] outcome = "failed" ->
              UNCHANGED <<keys_fetched, boot_pc, ssh_result, exit_code>>
         [] OTHER ->
              /\ ssh_result' = "raised"
              /\ boot_pc' = "exited"
              /\ exit_code' = 1
              /\ UNCHANGED keys_fetched
    /\ UNCHANGED <<handler, reg_attempt, posts, register_result, keys_saved,
                   agent, served>>
    /\ BootUnchanged

\* _fetch_key_data returns None after max_retries failures: register_ssh_keys
\* returns False, and main's "if not ssh_handler.register_ssh_keys():
\* sys.exit(1)".
FetchGivesUp ==
    /\ boot_pc \in {"fetch_public", "fetch_private"}
    /\ key_attempt >= KeyRetries
    /\ ssh_result' = "False"
    /\ boot_pc' = "exited"
    /\ exit_code' = 1
    /\ UNCHANGED <<handler, reg_attempt, posts, register_result, key_attempt,
                   key_gets, keys_fetched, keys_saved, agent, served>>
    /\ BootUnchanged

\* _save_public_key / _save_private_key: the files written, or an OSError
\* nothing catches. After the public key, the private key's fetch starts.
SaveKey(outcome) ==
    /\ boot_pc \in {"save_public", "save_private"}
    /\ IF outcome = "written"
       THEN /\ keys_saved' = keys_saved \cup {CurrentKey}
            /\ boot_pc' = IF boot_pc = "save_public" THEN "fetch_private"
                          ELSE "import_key"
            /\ key_attempt' = 0
            /\ UNCHANGED <<ssh_result, exit_code>>
       ELSE /\ ssh_result' = "raised"
            /\ boot_pc' = "exited"
            /\ exit_code' = 1
            /\ UNCHANGED <<keys_saved, key_attempt>>
    /\ UNCHANGED <<handler, reg_attempt, posts, register_result, key_gets,
                   keys_fetched, agent, served>>
    /\ BootUnchanged

\* A register_ssh_keys that reports a key the agent did not take as a
\* failure.
ImportPrivateKeyChecked(outcome) ==
    /\ boot_pc = "import_key"
    /\ agent' = outcome
    /\ IF outcome = "added"
       THEN /\ ssh_result' = "True"
            /\ boot_pc' = "app_run"
            /\ UNCHANGED exit_code
       ELSE /\ ssh_result' = "False"
            /\ boot_pc' = "exited"
            /\ exit_code' = 1
    /\ UNCHANGED <<handler, reg_attempt, posts, register_result, key_attempt,
                   key_gets, keys_fetched, keys_saved, served>>
    /\ BootUnchanged

\* _import_private_key returns nothing on every path, then "return True";
\* main builds the app.
ImportPrivateKey(outcome) ==
    /\ boot_pc = "import_key"
    /\ agent' = outcome
    /\ ssh_result' = "True"
    /\ boot_pc' = "app_run"
    /\ UNCHANGED <<handler, reg_attempt, posts, register_result, key_attempt,
                   key_gets, keys_fetched, keys_saved, served, exit_code>>
    /\ BootUnchanged

\* app.run: the server listens, or it raises (the port is taken) and main
\* exits with code 1.
AppRun(outcome) ==
    /\ boot_pc = "app_run"
    /\ IF outcome = "listening"
       THEN /\ boot_pc' = "serving"
            /\ served' = TRUE
            /\ UNCHANGED exit_code
       ELSE /\ boot_pc' = "exited"
            /\ exit_code' = 1
            /\ UNCHANGED served
    /\ UNCHANGED <<handler, reg_attempt, posts, register_result, key_attempt,
                   key_gets, keys_fetched, keys_saved, ssh_result, agent>>
    /\ BootUnchanged

\* app.run ends: KeyboardInterrupt (exit 0) or another exception (exit 1).
ServerStops(how) ==
    /\ boot_pc = "serving"
    /\ boot_pc' = "exited"
    /\ exit_code' = IF how = "KeyboardInterrupt" THEN 0 ELSE 1
    /\ UNCHANGED <<handler, reg_attempt, posts, register_result, key_attempt,
                   key_gets, keys_fetched, keys_saved, ssh_result, agent,
                   served>>
    /\ BootUnchanged

BootNext ==
    \/ \E h \in RegistrationHandlers : BootRegister(h)
    \/ \E outcome \in {"True", "False", "NameError"} : AttemptRegistration(outcome)
    \/ RegistrationGivesUp
    \/ \E outcome \in FetchOutcomes : FetchKey(outcome)
    \/ FetchGivesUp
    \/ \E outcome \in {"written", "OSError"} : SaveKey(outcome)
    \/ \E outcome \in ImportOutcomes : ImportPrivateKey(outcome)
    \/ \E outcome \in {"listening", "Exception"} : AppRun(outcome)
    \/ \E how \in {"KeyboardInterrupt", "Exception"} : ServerStops(how)

BootSpec == Init /\ [][BootNext]_vars

\* =============================================================== ~/.ssh
\* Python's "key_data in line": key_data is a run of consecutive pieces of
\* line.
Contains(key_data, line) ==
    \E i \in 0..(Len(line) - Len(key_data)) :
        SubSeq(line, i + 1, i + Len(key_data)) = key_data

\* _remove_existing_lines: new_lines = [line for line in lines if key_data
\* not in line] (a file that does not exist has no lines).
remove_existing_lines(lines, key_data) ==
    SelectSeq(lines, LAMBDA line : ~Contains(key_data, line))

\* authorized_keys after _save_public_key: the lines left, then key_data.
SavedAuthorizedKeys(lines, key_data) ==
    Append(remove_existing_lines(lines, key_data), key_data)

KeysUnchanged == UNCHANGED <<node_vars, master_vars, boot_vars, queue_vars, lock_vars,
                             retry_vars>>

\* SSHHandler._save_public_key at a boot of the worker: id_rsa.pub is
\* overwritten, authorized_keys rewritten.
SavePublicKey ==
    /\ Len(SavedAuthorizedKeys(authorized_keys, CoordinatorKey)) <= MaxLines
    /\ id_rsa_pub' = CoordinatorKey
    /\ authorized_keys' = SavedAuthorizedKeys(authorized_keys, CoordinatorKey)
    /\ KeysUnchanged

\* SSHKeyManager.add_public_key, the other writer of authorized_keys: the
\* key is appended unless a line equal to it is there.
add_public_key(public_key) ==
    /\ Len(authorized_keys) < MaxLines
    /\ authorized_keys' =
          IF \E i \in 1..Len(authorized_keys) : authorized_keys[i] = public_key
          THEN authorized_keys
          ELSE Append(authorized_keys, public_key)
    /\ UNCHANGED id_rsa_pub
    /\ KeysUnchanged

KeysNext ==
    \/ SavePublicKey
    \/ \E public_key \in KeyLines : add_public_key(public_key)

KeysSpec == Init /\ [][KeysNext]_vars

\* ========================================================== queue worker
QueueUnchanged == UNCHANGED <<node_vars, master_vars, boot_vars, keys_vars, lock_vars,
                              retry_vars>>

\* Worker.submit_task under self.lock: False when a task is current or the
\* queue is full; else the task is enqueued and marked "Pending". True is
\* what makes /submit_custom_task answer 200 with the task id.
submit_task_result ==
    worker_current_task_id = NoTask /\ Len(task_queue) < QueueMaxsize

\* /submit_custom_task with a valid body: uuid4, then Worker.submit_task.
submit_task ==
    /\ submitted < MaxQueued
    /\ IF submit_task_result
       THEN /\ submitted' = submitted + 1
            /\ task_queue' = Append(task_queue, submitted + 1)
            /\ worker_task_status' =
                  [worker_task_status EXCEPT ![submitted + 1] = "Pending"]
       ELSE UNCHANGED <<submitted, task_queue, worker_task_status>>
    /\ UNCHANGED <<worker_current_task_id, worker_thread>>
    /\ QueueUnchanged

\* Worker.get_status: task_status.get(task_id, None) under the lock.
get_status(t) == worker_task_status[t]

\* /task_status/<task_id> of src/src/server.py.
QueueTaskStatusEndpoint(t) ==
    /\ get_status(t) \in {"None", "Pending", "Running", "Completed", "Failed"}
    /\ UNCHANGED vars

\* task = self.task_queue.get()
WorkerGet ==
    /\ worker_thread.pc = "get"
    /\ task_queue # <<>>
    /\ worker_thread' = WorkerAt("begin", Head(task_queue))
    /\ task_queue' = Tail(task_queue)
    /\ UNCHANGED <<worker_task_status, worker_current_task_id, submitted>>
    /\ QueueUnchanged

\* First lock block of the loop: current_task_id = task_id, "Running".
WorkerBegin ==
    /\ worker_thread.pc = "begin"
    /\ worker_current_task_id' = worker_thread.task
    /\ worker_task_status' =
          [worker_task_status EXCEPT ![worker_thread.task] = "Running"]
    /\ worker_thread' = WorkerAt("run", worker_thread.task)
    /\ UNCHANGED <<task_queue, submitted>>
    /\ QueueUnchanged

\* The try statement: run_hpl_benchmark returns and the status becomes
\* "Completed", or it raises and the status becomes f"Failed: {e}".
WorkerRun(outcome) ==
    /\ worker_thread.pc = "run"
    /\ worker_task_status' =
          [worker_task_status EXCEPT ![worker_thread.task] =
              IF outcome = "returns" THEN "Completed" ELSE "Failed"]
    /\ worker_thread' = WorkerAt("finally", worker_thread.task)
    /\ UNCHANGED <<task_queue, worker_current_task_id, submitted>>
    /\ QueueUnchanged

\* finally: current_task_id = None, task_queue.task_done(); back to get().
WorkerFinally ==
    /\ worker_thread.pc = "finally"
    /\ worker_current_task_id' = NoTask
    /\ worker_thread' = WorkerAt("get", NoTask)
    /\ UNCHANGED <<task_queue, worker_task_status, submitted>>
    /\ QueueUnchanged

QueueNext ==
    \/ submit_task
    \/ \E t \in QueueTaskIds : QueueTaskStatusEndpoint(t)
    \/ WorkerGet
    \/ WorkerBegin
    \/ \E outcome \in RunOutcomes : WorkerRun(outcome)
    \/ WorkerFinally

QueueSpec == Init /\ [][QueueNext]_vars

\* ============================================================ status_lock
LockUnchanged == UNCHANGED <<node_vars, master_vars, boot_vars, keys_vars,
                             queue_vars, retry_vars>>

\* A request reaches handler thread h, which goes for the lock
\* (Scheduler.get_task_status, Worker._submit_task).
HandlerRequest(h) ==
    /\ handler_thread[h] = "idle"
    /\ handler_thread' = [handler_thread EXCEPT ![h] = "wait"]
    /\ UNCHANGED <<status_lock, slot, jobs, job_thread, children>>
    /\ LockUnchanged

\* "with self.status_lock:" entered by handler thread h.
HandlerAcquire(h) ==
    /\ handler_thread[h] = "wait"
    /\ status_lock = Free
    /\ status_lock' = HeldByHandler(h)
    /\ handler_thread' = [handler_thread EXCEPT ![h] = "locked"]
    /\ UNCHANGED <<slot, jobs, job_thread, children>>
    /\ LockUnchanged

\* Scheduler.get_task_status: the read, the lock released, the response.
StatusRelease ==
    /\ handler_thread["task_status"] = "locked"
    /\ status_lock' = Free
    /\ handler_thread' = [handler_thread EXCEPT !["task_status"] = "idle"]
    /\ UNCHANGED <<slot, jobs, job_thread, children>>
    /\ LockUnchanged

\* Worker._submit_task's lock block: busy (return False, 409), or the slot
\* taken; the lock is released on both ways.
SubmitRelease ==
    /\ handler_thread["submit"] = "locked"
    /\ status_lock' = Free
    /\ IF slot = NoTask /\ jobs < MaxLockJobs
       THEN /\ slot' = jobs + 1
            /\ jobs' = jobs + 1
            /\ handler_thread' = [handler_thread EXCEPT !["submit"] = "start_thread"]
       ELSE /\ handler_thread' = [handler_thread EXCEPT !["submit"] = "idle"]
            /\ UNCHANGED <<slot, jobs>>
    /\ UNCHANGED <<job_thread, children>>
    /\ LockUnchanged

\* thread.start(), return True: the handler answers 200 with the task id.
StartThread ==
    /\ handler_thread["submit"] = "start_thread"
    /\ job_thread' = [job_thread EXCEPT ![jobs] = At("begin")]
    /\ handler_thread' = [handler_thread EXCEPT !["submit"] = "idle"]
    /\ UNCHANGED <<status_lock, slot, jobs, children>>
    /\ LockUnchanged

\* "with self.status_lock:" entered by the thread of job j.
JobAcquire(j) ==
    /\ job_thread[j] \in {At(block) : block \in LockBlocks}
    /\ status_lock = Free
    /\ status_lock' = HeldByJob(j)
    /\ job_thread' = [job_thread EXCEPT ![j] = Locked(job_thread[j].at)]
    /\ UNCHANGED <<slot, jobs, children, handler_thread>>
    /\ LockUnchanged

\* JobRelease keeping the lock after the first block.
JobReleaseKept(j) ==
    /\ \E block \in LockBlocks : job_thread[j] = Locked(block)
    /\ LET block == job_thread[j].at
       IN  /\ job_thread' = [job_thread EXCEPT ![j] =
                 CASE block = "begin" -> At("setup")
                   [] block = "finally" -> At("done")
                   [] OTHER -> At("finally")]
           /\ slot' = IF block = "begin" THEN slot ELSE NoTask
           /\ status_lock' = IF block = "finally" THEN Free ELSE status_lock
    /\ UNCHANGED <<jobs, children, handler_thread>>
    /\ LockUnchanged

\* The end of a lock block of job j's thread: its writes, then the release.
\* "begin" writes the status only; "error" and "complete" write the status
\* and clear current_task_id and the method returns to the wrapper; the
\* wrapper's "finally" clears current_task_id and the thread ends.
JobRelease(j) ==
    /\ \E block \in LockBlocks : job_thread[j] = Locked(block)
    /\ LET block == job_thread[j].at
       IN  /\ job_thread' = [job_thread EXCEPT ![j] =
                 CASE block = "begin" -> At("setup")
                   [] block = "finally" -> At("done")
                   [] OTHER -> At("finally")]
           /\ slot' = IF block = "begin" THEN slot ELSE NoTask
    /\ status_lock' = Free
    /\ UNCHANGED <<jobs, children, handler_thread>>
    /\ LockUnchanged

\* From the first lock block to the first Process: the directories, the
\* deck (ValueError goes to the "Configuration Error" block), the HPLInstance
\* objects (an exception goes to the wrapper), collectl started.
JobSetup(j, outcome) ==
    /\ job_thread[j] = At("setup")
    /\ job_thread' = [job_thread EXCEPT ![j] =
          CASE outcome = "ok" -> At("spawn")
            [] outcome = "ValueError" -> At("error")
            [] OTHER -> At("finally")]
    /\ UNCHANGED <<status_lock, slot, jobs, children, handler_thread>>
    /\ LockUnchanged

\* process.start() for the next instance.
JobSpawn(j) ==
    /\ job_thread[j] = At("spawn")
    /\ children[j].started < LockInstances
    /\ children' = [children EXCEPT ![j].started = @ + 1]
    /\ UNCHANGED <<status_lock, slot, jobs, job_thread, handler_thread>>
    /\ LockUnchanged

\* The start loop is over: the thread goes to "for process in processes:
\* process.join()".
JobSpawned(j) ==
    /\ job_thread[j] = At("spawn")
    /\ children[j].started >= LockInstances
    /\ job_thread' = [job_thread EXCEPT ![j] = At("join")]
    /\ UNCHANGED <<status_lock, slot, jobs, children, handler_thread>>
    /\ LockUnchanged

\* A child process of job j exits.
LockChildExits(j) ==
    /\ children[j].exited < children[j].started
    /\ children' = [children EXCEPT ![j].exited = @ + 1]
    /\ UNCHANGED <<status_lock, slot, jobs, job_thread, handler_thread>>
    /\ LockUnchanged

\* Every join has returned; collectl is stopped and the thread goes to its
\* last lock block.
JobJoined(j) ==
    /\ job_thread[j] = At("join")
    /\ children[j].exited = children[j].started
    /\ job_thread' = [job_thread EXCEPT ![j] = At("complete")]
    /\ UNCHANGED <<status_lock, slot, jobs, children, handler_thread>>
    /\ LockUnchanged

\* A step of a thread inside a lock block.
LockRelease ==
    \/ StatusRelease
    \/ SubmitRelease
    \/ \E j \in LockJobs : JobRelease(j)

LockNext ==
    \/ \E h \in Handlers : HandlerRequest(h)
    \/ \E h \in Handlers : HandlerAcquire(h)
    \/ StatusRelease
    \/ SubmitRelease
    \/ StartThread
    \/ \E j \in LockJobs : JobAcquire(j)
    \/ \E j \in LockJobs : JobRelease(j)
    \/ \E j \in LockJobs : \E outcome \in GeneratorOutcomes : JobSetup(j, outcome)
    \/ \E j \in LockJobs : JobSpawn(j)
    \/ \E j \in LockJobs : JobSpawned(j)
    \/ \E j \in LockJobs : LockChildExits(j)
    \/ \E j \in LockJobs : JobJoined(j)

LockSpec == Init /\ [][LockNext]_vars

\* The threads of the worker process run: a thread inside a lock block
\* leaves it, a thread that goes for the lock gets it when it is free again
\* and again, and a started request handler finishes. Nothing is assumed
\* about the children or about the job threads outside their lock blocks.
LockFairSpec ==
    /\ LockSpec
    /\ WF_vars(LockRelease)
    /\ WF_vars(StartThread)
    /\ \A h \in Handlers : SF_vars(HandlerAcquire(h))

\* ==================================================== earlier coordinator
RetryUnchanged == UNCHANGED <<node_vars, master_vars, boot_vars, keys_vars,
                              queue_vars, lock_vars>>

\* response.json().get("task_id") of a 200 answer: the worker's uuid4, one
\* per accepted submit.
SubmittedTaskId(c) == c

\* One turn of "for attempt in range(max_retries)" that retries after any
\* failure of the POST.
SubmitPostRetriesAll(answer) ==
    /\ submit_node <= MaxCalls
    /\ submit_attempt < SubmitMaxRetries
    /\ submit_posts' = [submit_posts EXCEPT ![submit_node] = Append(@, answer)]
    /\ IF answer = 200
       THEN /\ submit_task_ids' = [submit_task_ids EXCEPT
                                      ![submit_node] = SubmittedTaskId(submit_node)]
            /\ submit_node' = submit_node + 1
            /\ submit_attempt' = 0
       ELSE IF submit_attempt < SubmitMaxRetries - 1
       THEN /\ submit_attempt' = submit_attempt + 1
            /\ UNCHANGED <<submit_node, submit_task_ids>>
       ELSE /\ submit_task_ids' = [submit_task_ids EXCEPT ![submit_node] = NoTask]
            /\ submit_node' = submit_node + 1
            /\ submit_attempt' = 0
    /\ RetryUnchanged

\* One turn of "for attempt in range(max_retries)" in submit_benchmark:
\* the sleep, the POST and what its answer leads to. 200 returns the task
\* id; 409 before the last attempt continues the loop; every other HTTP
\* error and the last 409 are re-raised, and with a missing answer end in
\* the outer except, which returns None. The caller then goes on to the
\* next node.
SubmitPost(answer) ==
    /\ submit_node <= MaxCalls
    /\ submit_attempt < SubmitMaxRetries
    /\ submit_posts' = [submit_posts EXCEPT ![submit_node] = Append(@, answer)]
    /\ IF answer = 200
       THEN /\ submit_task_ids' = [submit_task_ids EXCEPT
                                      ![submit_node] = SubmittedTaskId(submit_node)]
            /\ submit_node' = submit_node + 1
            /\ submit_attempt' = 0
       ELSE IF answer = 409 /\ submit_attempt < SubmitMaxRetries - 1
       THEN /\ submit_attempt' = submit_attempt + 1
            /\ UNCHANGED <<submit_node, submit_task_ids>>
       ELSE /\ submit_task_ids' = [submit_task_ids EXCEPT ![submit_node] = NoTask]
            /\ submit_node' = submit_node + 1
            /\ submit_attempt' = 0
    /\ RetryUnchanged

RetryNext == \E answer \in SubmitAnswers : SubmitPost(answer)

RetrySpec == Init /\ [][RetryNext]_vars

\* ---------------------------------------------------------------- claims
\* A body the contract calls valid: every key present, every value positive.
WellFormed(p) == p.json = "full" /\ p.grid_positive /\ p.instances_num > 0

\* The bodies that carry every key the handlers index.
FullPayloads == {p \in CompetitivePayloads \cup CooperativePayloads : p.json = "full"}

\* The task ids whose status is not terminal.
RunningTasks == {t \in TaskIds : task_status[t] = "Running"}

\* C1: at most one task_id of task_status has the non-terminal status
\* "Running", in every reachable state.
C1_AtMostOneRunning == Cardinality(RunningTasks) <= 1

\* C2: while a task returned by a 200 submit has not reached a terminal
\* status, every submit carrying a full body (competitive or cooperative) is
\* answered 409.
C2_BusyUntilTerminal ==
    \A t \in Returned :
        task_status[t] \notin Terminal =>
            \A p \in FullPayloads : SubmitCode(p) = 409

\* C3: whenever current_task_id is None, no task has status "Running".
C3_FreeSlotMeansNoneRunning ==
    current_task_id = NoTask => RunningTasks = {}

\* C4: once the task of the latest accepted submit has a terminal status, the
\* next submit with a full body is answered 200. (t = issued says that no
\* submit was accepted after t's; a refused submit changes no state, so the
\* only submits that could interfere are accepted ones.)
C4_ResubmitAfterTerminal ==
    \A t \in Returned :
        (t = issued /\ task_status[t] \in Terminal) =>
            \A p \in FullPayloads : SubmitCode(p) = 200

\* C4 witness: the second job has just been marked Completed (its wrapper's
\* finally has not run yet) after an earlier job went through the worker.
C4_Witness ==
    \E t \in Returned :
        /\ t = issued /\ t > 1
        /\ task_status[t] = "Completed" /\ thread[t] = "finally"
        /\ thread[1] \in {"finally", "done"}

\* C5: when the job's supervisor has finished and one of the job's HPL
\* children exited non-zero, the job's status is "Execution Error".
C5_ChildFailureIsExecutionError ==
    \A t \in TaskIds :
        (thread[t] = "finally"
         /\ \E i \in 1..Len(processes[t]) : processes[t][i].state = "failed")
        => task_status[t] = "Execution Error"

\* C6: a terminal status never changes: in every step, a task whose status
\* is Completed, Configuration Error or Execution Error keeps that status.
C6_StatusMonotonic ==
    [][\A t \in TaskIds :
          task_status[t] \in Terminal => task_status'[t] = task_status[t]]_vars

\* C6 witness: a job completed although one of its children had failed, and
\* its supervisor thread is still to run its finally block.
C6_Witness ==
    \E t \in TaskIds :
        /\ task_status[t] = "Completed" /\ thread[t] = "finally"
        /\ \E i \in 1..Len(processes[t]) : processes[t][i].state = "failed"

\* C7: every task id returned by a 200 submit is known to task_status from
\* the moment the submit handler returns (its status is "Running" before the
\* job thread has taken a step) and for ever after: /task_status/<id> is 200.
C7_ReturnedIdsKnown ==
    \A t \in Returned :
        /\ TaskStatusCode(t) = 200
        /\ thread[t] = "begin" => get_task_status(t) = "Running"

\* C7 witness: one returned job has ended, another has just been accepted
\* and its thread has not run yet.
C7_Witness ==
    \E t, u \in Returned : thread[t] = "done" /\ thread[u] = "begin"

\* C8: /get_results/<task_id> answers 200 only when the task's status is
\* terminal and its result directory holds at least one file.
C8_ResultsOnlyWhenTerminal ==
    \A t \in TaskIds :
        GetResultsCode(t) = 200 =>
            task_status[t] \in Terminal /\ result_files[t] # {}

\* C9: the step in which generating the input deck or the hostfile fails
\* (the job thread leaves the generator for the wrapper) sets the status to
\* "Configuration Error" and clears current_task_id, with no child spawned
\* and the result directory existing and empty.
C9_GeneratorFailureIsConfigurationError ==
    [][\A t \in TaskIds :
          (thread[t] = "config" /\ thread'[t] = "finally") =>
              /\ task_status'[t] = "Configuration Error"
              /\ current_task_id' = NoTask
              /\ processes'[t] = <<>>
              /\ t \in result_dirs' /\ result_files'[t] = {}]_vars

\* C10: a submit whose body lacks a key or carries a value that is not
\* positive is answered 400 and changes no state.
C10_InvalidSubmitRejected ==
    [][\A p \in CompetitivePayloads :
          (~WellFormed(p) /\ SubmitHandler("competitive", p)) =>
              (SubmitCode(p) = 400 /\ UNCHANGED vars)]_vars

\* ------------------------------------------------- claims: the coordinator
\* The (source ip, port) key of a registry entry.
Key(n) == <<n.ip, NodePort(n.data)>>

\* The places of list d (nodes, NodeList) that hold key k.
Entries(d, k) == {i \in 1..Len(d) : Key(d[i]) = k}

\* C11: every /register leaves exactly one entry for the request's
\* (source ip, port) key, and that entry carries the request's payload; so
\* register(ip, d1) then register(ip, d2) leaves one entry with payload d2,
\* and repeating a registration leaves the registry as it was.
C11_RegisterUpserts ==
    [][\A ip \in IPs : \A d \in RegisterBodies :
          Register(ip, d) =>
              /\ \E i \in 1..Len(nodes') :
                    /\ Entries(nodes', <<ip, NodePort(d)>>) = {i}
                    /\ nodes'[i].data = d
              /\ NodeEntry(ip, d) \in {nodes[i] : i \in 1..Len(nodes)}
                    => nodes' = nodes]_vars

\* The tasks active_tasks tracks, by key.
Tracked(d) == {d[i].ip : i \in 1..Len(d)}

\* C12: a tracked task polled as "Configuration Error" or "Execution Error"
\* is removed from active_tasks by that turn of the monitor loop.
C12_ErrorStatusRemoved ==
    [][\A net \in Net :
          (/\ PollTask(net)
           /\ NodeAPI_get_task_status(<<Head(pass).ip, Head(pass).port>>, net)
                 \in {"Configuration Error", "Execution Error"})
          => Head(pass).ip \notin Tracked(active_tasks')]_vars

\* C13: a task polled as Completed that is no longer in active_tasks has its
\* result files in the node's directory of the session.
C13_CompletedRemovedAfterWrite ==
    \A i \in 1..Len(fetching) :
        fetching[i].ip \notin Tracked(active_tasks)
            => Envelope \subseteq saved[fetching[i].ip]

\* The submit loop of a competitive dispatch is over.
SubmitPhaseOver == pc = "submit" /\ next_node > Len(NodeList)

\* C15: when the submit phase of a competitive dispatch is over, one submit
\* went to each entry of the node list, in list order; every task_id a
\* submit returned is tracked in active_tasks for the node that returned
\* it, and active_tasks tracks nothing else.
C15_OneSubmitPerNodeAllTracked ==
    SubmitPhaseOver =>
        /\ Len(submits) = Len(NodeList)
        /\ \A i \in 1..Len(submits) :
              /\ <<submits[i].ip, submits[i].port>> = Key(NodeList[i])
              /\ submits[i].task_id # NoTask =>
                    \E j \in 1..Len(active_tasks) :
                        active_tasks[j] = Task(submits[i].ip, submits[i].port,
                                               submits[i].task_id)
        /\ \A j \in 1..Len(active_tasks) :
              \E i \in 1..Len(submits) :
                  active_tasks[j] = Task(submits[i].ip, submits[i].port,
                                         submits[i].task_id)

\* C16: a cooperative dispatch whose submit is answered with a task id has
\* sent one /submit_cooperative_benchmark, to the first registered node,
\* with a node_slots entry for the ip of every registered node, and tracks
\* one task.
C16_CooperativeOneSubmitAllSlots ==
    [][\A net \in Net :
          (/\ LaunchCooperative(net) \/ MenuCooperative(net)
           /\ submit_benchmark(Key(nodes[1]), net) # NoTask)
          => /\ Len(submits') = 1
             /\ submits'[1].route = "/submit_cooperative_benchmark"
             /\ <<submits'[1].ip, submits'[1].port>> = Key(nodes[1])
             /\ submits'[1].node_slots = {nodes[i].ip : i \in 1..Len(nodes)}
             /\ Len(active_tasks') = 1]_vars

Endpoint(task) == <<task.ip, task.port>>

\* C17, with k = 1 (the loop drops a task at the first status poll that
\* gives None): a task leaves active_tasks during the monitor loop only in
\* the turn that polled it, and never in a turn whose poll its worker
\* answered with "Running"; the turn changes nothing on any worker; and a
\* tracked task whose worker stays unreachable does not stay tracked.
C17_AbandonAfterFailedPoll ==
    /\ [][\A i \in 1..Len(active_tasks) :
             (pc = "for" /\ active_tasks[i].ip \notin Tracked(active_tasks'))
             => /\ pass # <<>>
                /\ Head(pass) = active_tasks[i]
                /\ \E net \in Net :
                      /\ PollTask(net)
                      /\ fleet[Endpoint(Head(pass))] = "Running" => net = "lost"
                /\ UNCHANGED <<fleet, node_vars>>]_vars
    /\ \A w \in Fleet :
          []<>~(\E i \in 1..Len(active_tasks) :
                    Endpoint(active_tasks[i]) = w /\ fleet[w] = "off")

\* Of two tracked tasks, the one whose worker is off has been dropped by
\* the loop and the other is still tracked.
C17_Witness ==
    /\ pc = "for"
    /\ Len(active_tasks) = 1
    /\ \E i \in 1..Len(submits) :
          /\ submits[i].task_id # NoTask
          /\ submits[i].ip \notin Tracked(active_tasks)
          /\ fleet[<<submits[i].ip, submits[i].port>>] = "off"
          /\ saved[submits[i].ip] = {}

\* ---------------------------------------------------------- claims: boot
\* register_node is over: main has left the loop of the handler it chose.
RegisterNodeOver == handler # "none" /\ boot_pc # "register"

\* Every GET sent for key k failed, and there were KeyRetries of them.
Exhausted(k) ==
    /\ Len(key_gets[k]) = KeyRetries
    /\ \A i \in 1..Len(key_gets[k]) : key_gets[k][i] = "failed"

\* C18: boot is ordered: keys are fetched only after register_node returned
\* True, the process serves only after registration succeeded and both keys
\* were fetched and saved, and when registration or the key installation
\* fails for good the process has exited with code 1 without ever serving.
C18_ServeOnlyAfterRegistrationAndKeys ==
    /\ (\E k \in Keys : key_gets[k] # <<>>) => register_result = "True"
    /\ (boot_pc = "serving" \/ served) =>
          /\ register_result = "True"
          /\ ssh_result = "True"
          /\ keys_fetched = Keys
          /\ keys_saved = Keys
    /\ (register_result \in {"False", "raised"} \/ ssh_result \in {"False", "raised"}) =>
          /\ boot_pc = "exited"
          /\ exit_code = 1
          /\ ~served

\* The worker serves after a registration that needed several attempts and
\* key fetches that were retried.
C18_Witness ==
    /\ boot_pc = "serving"
    /\ posts > 1
    /\ Len(key_gets["private_key"]) > 1

\* C19: register_node makes at most max_retries attempts and always ends with
\* a result: True right after its first successful attempt, or False after
\* exactly max_retries failed attempts.
C19_RegisterNodeTrueOrFalse ==
    /\ posts <= max_retries(handler)
    /\ boot_pc = "register" => posts = reg_attempt
    /\ RegisterNodeOver =>
          \/ register_result = "True" /\ posts = reg_attempt + 1
          \/ /\ register_result = "False"
             /\ posts = max_retries(handler)
             /\ reg_attempt = max_retries(handler)

\* C20: register_ssh_keys returns False exactly when the fetch of the public
\* or of the private key failed on all max_retries attempts; the private key
\* is requested only after the public key was saved; and a failure to start
\* the agent or to add the key never makes it return False.
C20_KeysFalseOnlyOnFetchExhaustion ==
    /\ ssh_result # "none" =>
          (ssh_result = "False" <=> \E k \in Keys : Exhausted(k))
    /\ (ssh_result = "none" /\ \E k \in Keys : Exhausted(k)) =>
          /\ boot_pc \in {"fetch_public", "fetch_private"}
          /\ Exhausted(CurrentKey)
    /\ key_gets["private_key"] # <<>> => "public_key" \in keys_saved
    /\ agent # "none" => ssh_result = "True" /\ keys_saved = Keys

\* register_ssh_keys has returned True although ssh-add failed, after a
\* public-key fetch that was retried.
C20_Witness ==
    /\ agent = "add_failed"
    /\ ssh_result = "True"
    /\ Len(key_gets["public_key"]) > 1

\* --------------------------------------- claims: the node worker, continued
\* C21: the result directory of a task exists if and only if the task has
\* reached "Running" or a later status: never for an id no submit accepted,
\* and in every state in which task_status reports a status for the id.
C21_ResultDirIffStatus ==
    \A t \in TaskIds : t \in result_dirs <=> get_task_status(t) # "None"

\* The response of /get_results/<t>: the status code and, with 200, the
\* files of the envelope.
GetResultsResponse(t) ==
    [code |-> GetResultsCode(t),
     results |-> IF GetResultsCode(t) = 200 THEN result_files[t] ELSE {}]

C24_GetResultsPureRead ==
    [][\A t \in TaskIds :
          GetResults(t) =>
              /\ UNCHANGED <<task_status, current_task_id, result_dirs,
                             result_files>>
              /\ GetResultsResponse(t)' = GetResultsResponse(t)]_vars

\* A terminal task whose results /get_results serves.
C24_Witness ==
    \E t \in Returned :
        /\ task_status[t] \in Terminal
        /\ thread[t] = "done"
        /\ GetResultsResponse(t).code = 200

\* C28: a job whose thread has ended has a terminal status.
C28_EndedThreadHasTerminalStatus ==
    \A t \in TaskIds : thread[t] = "done" => task_status[t] \in Terminal

\* The children of job t: all instances_num of them started, all exited.
AllChildrenExited(t) ==
    /\ Len(processes[t]) = instances_num[t]
    /\ \A i \in 1..Len(processes[t]) : Exited(processes[t][i])

C23_EntryIpIsRemoteAddr ==
    [][\A ip \in IPs : \A data \in RegisterBodies \cup DeclaringBodies :
          Register(ip, data) =>
              /\ Len(nodes') = Len(nodes) + 1
              /\ nodes'[Len(nodes')].ip = ip
              /\ nodes'[Len(nodes')].data = data
              /\ \A i \in 1..Len(nodes) : nodes'[i] = nodes[i]]_vars

\* Two entries with the same ip and different bodies, one of them declaring
\* the address of another machine.
C23_Witness ==
    \E i, j \in 1..Len(nodes) :
        /\ nodes[i].ip = nodes[j].ip
        /\ nodes[i].data # nodes[j].data
        /\ "node_ip" \in DOMAIN nodes[i].data
        /\ nodes[i].data.node_ip # nodes[i].ip

\* The positions of the menu thread inside launch_*_benchmark, from the
\* Popen of collectl to the end of the finally block.
InSession ==
    pc \in {"submit", "while", "for", "fetch", "teardown", "teardown_raised"}

\* C26: the coordinator's collectl runs only while a dispatch session is
\* under way, and every step in which launch_competitive_benchmark or
\* launch_cooperative_benchmark returns or raises leaves it terminated and
\* waited for.
C26_CollectlStoppedOnSessionEnd ==
    /\ [](collectl_proc = "running" => InSession)
    /\ [][(InSession /\ ~InSession') => collectl_proc' = "terminated"]_vars

\* A session that an exception ended has gone through its finally block.
C26_Witness == pc = "raised" /\ collectl_proc = "terminated"

\* ------------------------------------------------------- claims: ~/.ssh
\* The lines of a file that are not exactly the line l, in their order.
OtherLines(lines, l) == SelectSeq(lines, LAMBDA line : line # l)

\* How many lines of a file are exactly the line l.
Occurrences(lines, l) == Cardinality({i \in 1..Len(lines) : lines[i] = l})

\* C25: saving the coordinator's public key leaves the key line exactly once
\* in authorized_keys and every line that is not exactly the key line as it
\* was, and saving the same key again changes nothing more.
C25_SaveDeduplicatesExactLine ==
    [][SavePublicKey =>
          /\ Occurrences(authorized_keys', CoordinatorKey) = 1
          /\ OtherLines(authorized_keys', CoordinatorKey)
                = OtherLines(authorized_keys, CoordinatorKey)
          /\ SavedAuthorizedKeys(authorized_keys', CoordinatorKey)
                = authorized_keys']_vars

\* ------------------------------------------------- claims: queue worker
\* The task the worker thread is running or about to run.
WorkerHolds(t) == worker_thread.task = t /\ worker_thread.pc \in {"begin", "run"}

\* C27: every status get_status reports for a task id a successful submit
\* returned is Running, Completed, Configuration Error or Execution Error,
\* and a task that has stopped running has one of the three terminal ones.
C27_QueueStatusVocabulary ==
    \A t \in 1..submitted :
        /\ get_status(t) \in {"Running"} \cup Terminal
        /\ (worker_thread.pc \in {"finally", "get"} /\ t \notin
              {task_queue[i] : i \in 1..Len(task_queue)}) =>
                 get_status(t) \in Terminal

\* Accepted tasks that are not finished: still "Pending" or "Running".
Unfinished == {t \in 1..submitted : get_status(t) \in {"Pending", "Running"}}

\* C31: at most one accepted task is unfinished at any time, and submit_task
\* returns False whenever an accepted task is still Pending or Running, the
\* window between the worker thread's get() and its setting current_task_id
\* included.
C31_AtMostOneUnfinished ==
    /\ Cardinality(Unfinished) <= 1
    /\ Unfinished # {} => ~submit_task_result

\* C32: a terminal status is never observable while current_task_id still
\* names the task, so that once the only submitted task is reported
\* Completed or failed the next submit_task is accepted.
C32_TerminalMeansSlotFree ==
    /\ \A t \in 1..submitted :
          get_status(t) \in {"Completed", "Failed"} =>
             worker_current_task_id # t
    /\ (submitted = 1 /\ get_status(1) \in {"Completed", "Failed"}) =>
          submit_task_result

\* -------------------------------------------------- claims: status_lock
\* Job j has a child process that has been started and has not exited, or
\* its thread is starting or joining its children.
ChildrenAbout(j) ==
    \/ children[j].started > children[j].exited
    \/ job_thread[j] \in {At("spawn"), At("join")}

C33_PingTrueForServingWorker ==
    \A w \in Fleet : fleet[w] # "off" => ping(w, "answered")

\* The menu thread is inside wait_benchmark_completion.
InMonitorLoop == pc \in {"while", "for", "fetch"}

\* The monitor loop tracks a task of worker w.
TracksWorker(w) ==
    \E i \in 1..Len(active_tasks) : Endpoint(active_tasks[i]) = w

\* The session was left by an exception (operator interrupt, OSError).
SessionInterrupted == pc \in {"teardown_raised", "raised"}

SubmitReturned(c) == c < submit_node

\* C35: submit_benchmark sends at most 3 POSTs; every POST but the last it
\* sent was answered 409 (so it retries only after a busy answer and sends
\* nothing after a 200); it goes on exactly while every answer so far was
\* 409 and fewer than 3 were sent; and it returns the task id when its last
\* POST was answered 200 and None otherwise (third 409, other failure).
C35_SubmitRetriesOnlyOnBusy ==
    \A c \in SubmitCalls :
        LET sent == submit_posts[c]
        IN  /\ Len(sent) <= 3
            /\ \A i \in 1..(Len(sent) - 1) : sent[i] = 409
            /\ c <= submit_node =>
                  (SubmitReturned(c) <=>
                      /\ sent # <<>>
                      /\ (sent[Len(sent)] # 409 \/ Len(sent) = 3))
            /\ c > submit_node => sent = <<>>
            /\ SubmitReturned(c) =>
                  (submit_task_ids[c] =
                      IF sent[Len(sent)] = 200 THEN SubmittedTaskId(c) ELSE NoTask)
            /\ ~SubmitReturned(c) => submit_task_ids[c] = NoTask

\* One call gave up after three busy answers and another returned the task
\* id of a 200 that came after a busy answer.
C35_Witness ==
    \E c, d \in SubmitCalls :
        /\ SubmitReturned(c) /\ SubmitReturned(d)
        /\ submit_posts[c] = <<409, 409, 409>> /\ submit_task_ids[c] = NoTask
        /\ submit_posts[d] = <<409, 200>> /\ submit_task_ids[d] = SubmittedTaskId(d)

\* C36: a competitive dispatch submits only to the nodes that were in the
\* registry when it started. A /register handled while the submit loop runs
\* leaves the list the loop iterates and the submits made so far as they
\* are, and the loop ends with one submit per node of the list it was
\* started with.
C36_DispatchSubmitsToInitialNodes ==
    [][/\ (pc = "submit" /\ Len(nodes') > Len(nodes))
             => UNCHANGED <<NodeList, next_node, submits, active_tasks>>
       /\ (pc = "menu" /\ pc' = "submit") => NodeList' = nodes
       /\ (pc = "submit" /\ pc' = "submit") => Len(NodeList') = Len(NodeList)]_vars

=========================================================================
